---- MODULE Spec2Model ----
(***************************************************************************)
(* The Hydrawise cloud client of                                           *)
(* custom_components/hunter_hydrawise/pydrawise/client.py.                 *)
(*                                                                         *)
(* Every public method is a coroutine.  A coroutine runs atomically from   *)
(* one await to the next, so one action of this module is one such         *)
(* stretch of a call:                                                      *)
(*   <method>(c)     entry: the selector is built, auth.token() is awaited *)
(*   token_*(c)      auth.token() answers; the Client is built and the     *)
(*                   `async with` awaits its __aenter__                    *)
(*   aenter_*(c)     the session is connected; session.execute is awaited  *)
(*   execute_*(c)    the server answers; _mutation checks the response;    *)
(*                   the `async with` awaits __aexit__                     *)
(*   aexit(c)        the session is closed; the method returns or raises   *)
(* The auth collaborator, the transport, the server and the deserializer   *)
(* are the environment: they answer or fail nondeterministically.          *)
(***************************************************************************)
EXTENDS Integers, Sequences, FiniteSets, TLC

VARIABLES auth,        \* Hydrawise._auth, the client's only field
          authToken,   \* the bearer token the auth collaborator hands out now
          concurrent,  \* whether the caller overlaps its calls
          started,     \* number of calls begun so far
          calls,       \* per call slot: the frame of the coroutine running there
          sessions     \* every session opened so far, by session id

vars == <<auth, authToken, concurrent, started, calls, sessions>>

(***************************************************************************)
(* Bounds of the model.                                                    *)
(***************************************************************************)
\* Calls a caller that awaits each call before the next one makes in a row.
MaxCalls == 2
\* Largest custom_run_duration (seconds) a caller passes.
MaxDuration == 2

\* Call slots: two calls may be in flight at once.
Slots == {1, 2}

(***************************************************************************)
(* Inputs.  A caller that overlaps its calls draws from the smaller sets.  *)
(***************************************************************************)
Tokens == {"Bearer t1", "Bearer t2"}

Record(rtype, id, name) == [rtype |-> rtype, id |-> id, name |-> name]

Ids == IF concurrent THEN {42} ELSE {1, 42}
Flags == IF concurrent THEN {FALSE} ELSE BOOLEAN
Durations == IF concurrent THEN {0, 1} ELSE (-1)..MaxDuration
Zones == {Record("Zone", i, "zone") : i \in Ids}
Controllers == {Record("Controller", i, "controller") : i \in Ids}
Suspensions == {Record("ZoneSuspension", i, "suspension") : i \in Ids}

\* An aware datetime: an instant (ts) and the UTC offset of its timezone.
Datetime(ts, off) == [tag |-> "datetime", ts |-> ts, off |-> off]
Untils == IF concurrent THEN {Datetime(10, 2)}
          ELSE {Datetime(10, 0), Datetime(10, 2), Datetime(20, -1)}

(***************************************************************************)
(* Errors.  args is the tuple of arguments the exception was built with:   *)
(* <<>> for `raise MutationError`, <<s>> for `raise MutationError(s)`.     *)
(* by names who raised it.                                                 *)
(***************************************************************************)
Error(type, args, by) == [type |-> type, args |-> args, by |-> by]
NoError == Error("none", <<>>, "nobody")
AuthError == Error("AuthError", <<"not authenticated">>, "auth")
ConnectError == Error("TransportError", <<"cannot connect">>, "transport")
RequestError == Error("TransportQueryError", <<"request failed">>, "transport")
DeserializationError == Error("DeserializationError", <<"bad shape">>, "deserializer")

(***************************************************************************)
(* Schema and selection helpers (schema.py, schema_utils.py).              *)
(***************************************************************************)
\* The fields get_selectors(T) asks for: every declared field of T.
get_selectors(rtype) ==
    IF rtype = "StatusCodeAndSummary" THEN {"status", "summary"} ELSE {"id", "name"}

\* DateTime.to_json(dt): the wire form of a datetime.  value is the string
\* sent to the server: the local wall clock followed by the UTC offset.
to_json(dt) ==
    [value |-> [tag |-> "str", text |-> <<"DateTime", dt.ts + dt.off, dt.off>>],
     timestamp |-> dt.ts]

\* The type arguments of deserialize: T and list[T].
TypeOf(rtype) == [list |-> FALSE, of |-> rtype]
ListOf(rtype) == [list |-> TRUE, of |-> rtype]

\* Whether the deserializer accepts the JSON value j for type t.
FitsObject(rtype, j) == get_selectors(rtype) \subseteq DOMAIN j
Fits(t, j) ==
    IF t.list THEN \A i \in 1..Len(j) : FitsObject(t.of, j[i])
    ELSE FitsObject(t.of, j)

\* deserialize(t, j): the record (or list of records) the JSON value j holds.
DeserializeObject(rtype, j) == Record(rtype, j.id, j.name)
deserialize(t, j) ==
    IF t.list THEN [i \in 1..Len(j) |-> DeserializeObject(t.of, j[i])]
    ELSE DeserializeObject(t.of, j)

(***************************************************************************)
(* Selectors: DSL_SCHEMA.<root>.<name>(args).select(...).  sub is the path *)
(* of nested selections below the root field, fields the leaf fields.      *)
(***************************************************************************)
NoArgs == [k \in {} |-> 0]
Selector(root, name, args, sub, fields) ==
    [root |-> root, name |-> name, args |-> args, sub |-> sub, fields |-> fields]

\* lines 69-71
get_user_selector ==
    Selector("Query", "me", NoArgs, <<>>, get_selectors("User"))
\* lines 80-84
get_controllers_selector ==
    Selector("Query", "me", NoArgs, <<"controllers">>, get_selectors("Controller"))
\* lines 93-97
get_controller_selector(controller_id) ==
    Selector("Query", "controller", "controllerId" :> controller_id, <<>>,
             get_selectors("Controller"))
\* lines 106-110
get_zones_selector(controller) ==
    Selector("Query", "controller", "controllerId" :> controller.id, <<"zones">>,
             get_selectors("Zone"))
\* lines 119-121
get_zone_selector(zone_id) ==
    Selector("Query", "zone", "zoneId" :> zone_id, <<>>, get_selectors("Zone"))

\* Mutant: the duration is sent whatever its value.
WithDurationAlways(kwargs, custom_run_duration) ==
    kwargs @@ ("customRunDuration" :> custom_run_duration)

\* lines 138-144 and 176-181: customRunDuration joins kwargs only when positive
WithDuration(kwargs, custom_run_duration) ==
    IF custom_run_duration > 0
    THEN kwargs @@ ("customRunDuration" :> custom_run_duration)
    ELSE kwargs

\* lines 138-150
start_zone_selector(zone, mark_run_as_scheduled, custom_run_duration, stack_runs) ==
    Selector("Mutation", "startZone",
             WithDuration("zoneId" :> zone.id
                            @@ "markRunAsScheduled" :> mark_run_as_scheduled
                            @@ "stackRuns" :> stack_runs,
                          custom_run_duration),
             <<>>, get_selectors("StatusCodeAndSummary"))
\* lines 157-161
stop_zone_selector(zone) ==
    Selector("Mutation", "stopZone", "zoneId" :> zone.id, <<>>,
             get_selectors("StatusCodeAndSummary"))
\* lines 176-187
start_all_zones_selector(controller, mark_run_as_scheduled, custom_run_duration) ==
    Selector("Mutation", "startAllZones",
             WithDuration("controllerId" :> controller.id
                            @@ "markRunAsScheduled" :> mark_run_as_scheduled,
                          custom_run_duration),
             <<>>, get_selectors("StatusCodeAndSummary"))
\* Mutant: stop_all_zones issues the mutation of stop_zone.
stop_all_zones_selector_as_stop_zone(controller) ==
    Selector("Mutation", "stopZone", "controllerId" :> controller.id, <<>>,
             get_selectors("StatusCodeAndSummary"))

\* lines 194-198
stop_all_zones_selector(controller) ==
    Selector("Mutation", "stopAllZones", "controllerId" :> controller.id, <<>>,
             get_selectors("StatusCodeAndSummary"))
\* lines 206-213
suspend_zone_selector(zone, until) ==
    Selector("Mutation", "suspendZone",
             "zoneId" :> zone.id @@ "until" :> to_json(until).value,
             <<>>, get_selectors("StatusCodeAndSummary"))
\* lines 220-224
resume_zone_selector(zone) ==
    Selector("Mutation", "resumeZone", "zoneId" :> zone.id, <<>>,
             get_selectors("StatusCodeAndSummary"))
\* Mutant: the datetime is sent as it is.
suspend_all_zones_selector_raw(controller, until) ==
    Selector("Mutation", "suspendAllZones",
             "controllerId" :> controller.id @@ "until" :> until,
             <<>>, get_selectors("StatusCodeAndSummary"))

\* lines 232-239
suspend_all_zones_selector(controller, until) ==
    Selector("Mutation", "suspendAllZones",
             "controllerId" :> controller.id @@ "until" :> to_json(until).value,
             <<>>, get_selectors("StatusCodeAndSummary"))
\* lines 246-250
resume_all_zones_selector(controller) ==
    Selector("Mutation", "resumeAllZones", "controllerId" :> controller.id, <<>>,
             get_selectors("StatusCodeAndSummary"))
\* lines 259-261: .select() with no field
delete_zone_suspension_selector(suspension) ==
    Selector("Mutation", "deleteZoneSuspension", "id" :> suspension.id, <<>>, {})

(***************************************************************************)
(* The server.  session.execute returns the data of the response: a        *)
(* mapping from the root field's name to its value.  A GraphQL response    *)
(* holds every selected field, so the mapping has the selector's path; the *)
(* leaf objects may still lack a field the record type declares.           *)
(***************************************************************************)
JsonBad == [id |-> 7]
JsonObjects ==
    IF concurrent THEN {[id |-> 42, name |-> "b"], JsonBad}
    ELSE {[id |-> 1, name |-> "a"], [id |-> 42, name |-> "b"], JsonBad}
JsonLists ==
    IF concurrent THEN {<<[id |-> 42, name |-> "b"]>>, <<JsonBad>>}
    ELSE {<<>>, <<[id |-> 1, name |-> "a"]>>,
          <<[id |-> 1, name |-> "a"], [id |-> 42, name |-> "b"]>>,
          <<[id |-> 42, name |-> "b"], JsonBad>>}

QueryAnswers(sel) ==
    IF sel.sub = <<>> THEN {sel.name :> j : j \in JsonObjects}
    ELSE {sel.name :> (sel.sub[1] :> j) : j \in JsonLists}

\* The value of a mutation field: a status object, or a bare value that is
\* truthy (true) or falsy (false, null).
Statuses == IF concurrent THEN {"OK", "ERROR"} ELSE {"OK", "WARNING", "ERROR", "ok"}
Summaries == IF concurrent THEN {"some summary"} ELSE {"some summary", "zone is busy"}
StatusObject(status, summary) ==
    [shape |-> "dict", status |-> status, summary |-> summary]
Bare(truthy) == [shape |-> "bare", truthy |-> truthy]
MutationResponses ==
    {StatusObject(s, m) : s \in Statuses, m \in Summaries} \cup {Bare(b) : b \in BOOLEAN}

MutationAnswers(sel) == {sel.name :> r : r \in MutationResponses}

ServerAnswers(kind, sel) ==
    IF kind = "query" THEN QueryAnswers(sel) ELSE MutationAnswers(sel)

(***************************************************************************)
(* What a call hands back to its caller.  value is <<>> for None and <<v>> *)
(* for the value v.                                                        *)
(***************************************************************************)
Pending == [status |-> "pending", value |-> <<>>, error |-> NoError]
Returned(v) == [status |-> "returned", value |-> <<v>>, error |-> NoError]
ReturnedNone == [status |-> "returned", value |-> <<>>, error |-> NoError]
Raised(e) == [status |-> "raised", value |-> <<>>, error |-> e]

\* return deserialize(t, j): the deserializer's error propagates.
ReturnDeserialized(t, j) ==
    IF Fits(t, j) THEN Returned(deserialize(t, j)) ELSE Raised(DeserializationError)

(***************************************************************************)
(* Hydrawise._mutation, lines 55-62: the check of the response.  The       *)
(* result is the exception raised inside the `async with`, or NoError.     *)
(***************************************************************************)
MutationError(args) == Error("MutationError", args, "client")

isinstance_dict(resp) == resp.shape = "dict"

\* Mutant: only "OK" is accepted.
mutation_check_ok_only(sel, result) ==
    LET resp == result[sel.name]
    IN  IF isinstance_dict(resp)
        THEN IF resp.status # "OK" THEN MutationError(<<resp.summary>>) ELSE NoError
        ELSE IF ~resp.truthy THEN MutationError(<<>>) ELSE NoError

\* Mutant: a response that is no status object is never checked.
mutation_check_dict_only(sel, result) ==
    LET resp == result[sel.name]
    IN  IF isinstance_dict(resp) /\ resp.status \notin {"OK", "WARNING"}
        THEN MutationError(<<resp.summary>>)
        ELSE NoError

mutation_check(sel, result) ==
    LET resp == result[sel.name]
    IN  IF isinstance_dict(resp)
        THEN IF resp.status \notin {"OK", "WARNING"}
             THEN MutationError(<<resp.summary>>)
             ELSE NoError
        ELSE IF ~resp.truthy
             THEN MutationError(<<>>)
             ELSE NoError

\* Hydrawise._query, lines 48-50: the result is returned unchecked.
query_check(sel, result) == NoError

(***************************************************************************)
(* The tail of each method: what it does with the result of _query or      *)
(* _mutation.                                                              *)
(***************************************************************************)
\* line 73
get_user_return(result) == ReturnDeserialized(TypeOf("User"), result["me"])
\* line 85
get_controllers_return(result) ==
    ReturnDeserialized(ListOf("Controller"), result["me"]["controllers"])
\* Mutant: the controller is deserialized as a zone.
get_controller_return_as_zone(result) ==
    ReturnDeserialized(TypeOf("Zone"), result["controller"])

\* line 98
get_controller_return(result) ==
    ReturnDeserialized(TypeOf("Controller"), result["controller"])
\* line 111
get_zones_return(result) ==
    ReturnDeserialized(ListOf("Zone"), result["controller"]["zones"])
\* line 122
get_zone_return(result) == ReturnDeserialized(TypeOf("Zone"), result["zone"])
\* lines 146, 157, 183, 194, 206, 220, 232, 246, 259: `await self._mutation(...)`
\* is the method's last statement, so the method returns None.
mutation_return(result) == ReturnedNone

method_return(method, result) ==
    CASE method = "get_user" -> get_user_return(result)
      [] method = "get_controllers" -> get_controllers_return(result)
      [] method = "get_controller" -> get_controller_return(result)
      [] method = "get_zones" -> get_zones_return(result)
      [] method = "get_zone" -> get_zone_return(result)
      [] OTHER -> mutation_return(result)

(***************************************************************************)
(* Call frames and sessions.                                               *)
(***************************************************************************)
\* The frame of a slot where no call runs.
Idle ==
    [pc |-> "idle", method |-> "", kind |-> "", input |-> <<>>, sel |-> <<>>,
     no |-> 0,             \* the call's number, in order of beginning
     token |-> "",         \* the token auth.token() gave this call
     tokenCalls |-> 0,     \* times this call awaited auth.token()
     sid |-> 0,            \* the session of its `async with`, 0 before it
     sent |-> 0,           \* requests this call sent
     answered |-> FALSE,   \* whether the server answered its request
     result |-> <<>>,      \* what session.execute returned
     fault |-> NoError,    \* the error a collaborator raised into this call
     pending |-> NoError,  \* the exception travelling out of the `async with`
     outcome |-> Pending]

\* Hydrawise._client, lines 43-46, entered by the `async with` of lines 49
\* and 53: a new transport carrying the token, a new Client, a new session.
NewSession(no, token) == [owner |-> no, token |-> token, open |-> TRUE, users |-> {}]
\* Mutant: the client keeps its session and hands it to the next call while
\* it is open.
client_session_cached(ss, no, token) ==
    IF \E s \in DOMAIN ss : ss[s].open
    THEN [sessions |-> ss, sid |-> CHOOSE s \in DOMAIN ss : ss[s].open]
    ELSE [sessions |-> Append(ss, NewSession(no, token)), sid |-> Len(ss) + 1]

client_session(ss, no, token) ==
    [sessions |-> Append(ss, NewSession(no, token)), sid |-> Len(ss) + 1]

\* session.execute(document) of call number no on session sid.
Use(ss, sid, no) == [ss EXCEPT ![sid].users = @ \cup {no}]

\* Mutant: the session is closed only when the body ended normally.
session_close_on_success(ss, sid, pending) ==
    IF pending = NoError THEN [ss EXCEPT ![sid].open = FALSE] ELSE ss

\* The __aexit__ of the `async with` (lines 49, 53): the session is closed
\* whether or not an exception is travelling through it.
session_close(ss, sid, pending) == [ss EXCEPT ![sid].open = FALSE]

Init ==
    /\ auth = "auth"
    /\ authToken \in Tokens
    /\ concurrent = FALSE
    /\ started = 0
    /\ calls = [c \in Slots |-> Idle]
    /\ sessions = <<>>

InitConcurrent ==
    /\ auth = "auth"
    /\ authToken \in Tokens
    /\ concurrent = TRUE
    /\ started = 0
    /\ calls = [c \in Slots |-> Idle]
    /\ sessions = <<>>

\* A caller that overlaps its calls begins call c in slot c; one that awaits
\* each call before the next runs them all in slot 1.
CanBegin(c) ==
    /\ calls[c].pc = "idle"
    /\ IF concurrent THEN started = c - 1 ELSE c = 1 /\ started < MaxCalls

\* The entry of a method: its arguments are evaluated (the selector is built),
\* then _query or _mutation starts and awaits auth.token() (line 44).
Begin(c, method, kind, input, sel) ==
    /\ CanBegin(c)
    /\ started' = started + 1
    /\ calls' = [calls EXCEPT ![c] =
                   [Idle EXCEPT !.pc = "token", !.method = method, !.kind = kind,
                                !.input = input, !.sel = sel, !.no = started + 1]]
    /\ UNCHANGED <<auth, authToken, concurrent, sessions>>

get_user(c) == Begin(c, "get_user", "query", <<>>, get_user_selector)

get_controllers(c) ==
    Begin(c, "get_controllers", "query", <<>>, get_controllers_selector)

get_controller(c) ==
    \E controller_id \in Ids :
        Begin(c, "get_controller", "query", [controller_id |-> controller_id],
              get_controller_selector(controller_id))

get_zones(c) ==
    \E controller \in Controllers :
        Begin(c, "get_zones", "query", [controller |-> controller],
              get_zones_selector(controller))

get_zone(c) ==
    \E zone_id \in Ids :
        Begin(c, "get_zone", "query", [zone_id |-> zone_id], get_zone_selector(zone_id))

start_zone(c) ==
    \E zone \in Zones, mark_run_as_scheduled \in Flags,
       custom_run_duration \in Durations, stack_runs \in Flags :
        Begin(c, "start_zone", "mutation",
              [zone |-> zone, mark_run_as_scheduled |-> mark_run_as_scheduled,
               custom_run_duration |-> custom_run_duration, stack_runs |-> stack_runs],
              start_zone_selector(zone, mark_run_as_scheduled, custom_run_duration,
                                  stack_runs))

stop_zone(c) ==
    \E zone \in Zones :
        Begin(c, "stop_zone", "mutation", [zone |-> zone], stop_zone_selector(zone))

start_all_zones(c) ==
    \E controller \in Controllers, mark_run_as_scheduled \in Flags,
       custom_run_duration \in Durations :
        Begin(c, "start_all_zones", "mutation",
              [controller |-> controller,
               mark_run_as_scheduled |-> mark_run_as_scheduled,
               custom_run_duration |-> custom_run_duration],
              start_all_zones_selector(controller, mark_run_as_scheduled,
                                       custom_run_duration))

stop_all_zones(c) ==
    \E controller \in Controllers :
        Begin(c, "stop_all_zones", "mutation", [controller |-> controller],
              stop_all_zones_selector(controller))

suspend_zone(c) ==
    \E zone \in Zones, until \in Untils :
        Begin(c, "suspend_zone", "mutation", [zone |-> zone, until |-> until],
              suspend_zone_selector(zone, until))

resume_zone(c) ==
    \E zone \in Zones :
        Begin(c, "resume_zone", "mutation", [zone |-> zone], resume_zone_selector(zone))

suspend_all_zones(c) ==
    \E controller \in Controllers, until \in Untils :
        Begin(c, "suspend_all_zones", "mutation",
              [controller |-> controller, until |-> until],
              suspend_all_zones_selector(controller, until))

resume_all_zones(c) ==
    \E controller \in Controllers :
        Begin(c, "resume_all_zones", "mutation", [controller |-> controller],
              resume_all_zones_selector(controller))

delete_zone_suspension(c) ==
    \E suspension \in Suspensions :
        Begin(c, "delete_zone_suspension", "mutation", [suspension |-> suspension],
              delete_zone_suspension_selector(suspension))

(***************************************************************************)
(* The steps of _query and _mutation.                                      *)
(***************************************************************************)
\* line 44: auth.token() returns; lines 45-46 build the transport and the
\* Client; lines 49, 53 start entering the `async with`.
token_ok(c) ==
    /\ calls[c].pc = "token"
    /\ calls' = [calls EXCEPT ![c].pc = "connect", ![c].token = authToken,
                              ![c].tokenCalls = @ + 1]
    /\ UNCHANGED <<auth, authToken, concurrent, started, sessions>>

\* line 44: auth.token() raises; nothing in _client, _query or _mutation
\* catches it.
token_fail(c) ==
    /\ calls[c].pc = "token"
    /\ calls' = [calls EXCEPT ![c].pc = "done", ![c].tokenCalls = @ + 1,
                              ![c].fault = AuthError,
                              ![c].outcome = Raised(AuthError)]
    /\ UNCHANGED <<auth, authToken, concurrent, started, sessions>>

\* lines 49-50, 53-54: the session is connected and session.execute sends
\* the document.
aenter_ok(c) ==
    /\ calls[c].pc = "connect"
    /\ LET cl == client_session(sessions, calls[c].no, calls[c].token)
       IN  /\ sessions' = Use(cl.sessions, cl.sid, calls[c].no)
           /\ calls' = [calls EXCEPT ![c].pc = "execute", ![c].sid = cl.sid,
                                     ![c].sent = @ + 1]
    /\ UNCHANGED <<auth, authToken, concurrent, started>>

\* lines 49, 53: the transport cannot connect; the body of the `async with`
\* never runs and no session stays open.
aenter_fail(c) ==
    /\ calls[c].pc = "connect"
    /\ calls' = [calls EXCEPT ![c].pc = "done", ![c].fault = ConnectError,
                              ![c].outcome = Raised(ConnectError)]
    /\ UNCHANGED <<auth, authToken, concurrent, started, sessions>>

\* lines 50, 54-62: session.execute returns the server's answer; _mutation
\* checks it; the `async with` starts closing the session.
execute_ok(c) ==
    /\ calls[c].pc = "execute"
    /\ sessions[calls[c].sid].open
    /\ \E result \in ServerAnswers(calls[c].kind, calls[c].sel) :
         calls' = [calls EXCEPT
                     ![c].pc = "exit", ![c].answered = TRUE, ![c].result = result,
                     ![c].pending = IF calls[c].kind = "mutation"
                                    THEN mutation_check(calls[c].sel, result)
                                    ELSE query_check(calls[c].sel, result)]
    /\ UNCHANGED <<auth, authToken, concurrent, started, sessions>>

\* Mutant: a failed request is sent once more.
execute_retry(c, e) ==
    IF calls[c].sent < 2 THEN [calls EXCEPT ![c].sent = @ + 1]
    ELSE [calls EXCEPT ![c].pc = "exit", ![c].fault = e, ![c].pending = e]

\* Mutant: the error of the request is wrapped in a MutationError.
execute_wrap(c, e) ==
    [calls EXCEPT ![c].pc = "exit", ![c].fault = e,
                  ![c].pending = MutationError(e.args)]

\* The error session.execute raises travels out of the `async with`.
execute_raise(c, e) == [calls EXCEPT ![c].pc = "exit", ![c].fault = e, ![c].pending = e]

\* lines 50, 54: session.execute raises (network failure, HTTP error, an
\* error reported by the server).
execute_fail(c) ==
    /\ calls[c].pc = "execute"
    /\ calls' = execute_raise(c, RequestError)
    /\ UNCHANGED <<auth, authToken, concurrent, started, sessions>>

\* What the method hands back once the `async with` is left.
method_outcome(call) ==
    IF call.pending # NoError THEN Raised(call.pending)
    ELSE method_return(call.method, call.result)

\* lines 49, 53: __aexit__ closes the session; the exception of the body
\* propagates, else the method finishes (lines 73, 85, 98, 111, 122).
aexit(c) ==
    /\ calls[c].pc = "exit"
    /\ sessions' = session_close(sessions, calls[c].sid, calls[c].pending)
    /\ LET out == method_outcome(calls[c])
       IN  calls' = [calls EXCEPT
                       ![c].pc = "done", ![c].outcome = out,
                       ![c].fault = IF calls[c].pending = NoError THEN out.error
                                    ELSE @]
    /\ UNCHANGED <<auth, authToken, concurrent, started>>

\* The caller takes the outcome; the frame is gone.
Return(c) ==
    /\ calls[c].pc = "done"
    /\ calls' = [calls EXCEPT ![c] = Idle]
    /\ UNCHANGED <<auth, authToken, concurrent, started, sessions>>

\* The auth collaborator refreshes its token.
token_refresh ==
    /\ authToken' \in Tokens \ {authToken}
    /\ UNCHANGED <<auth, concurrent, started, calls, sessions>>

Next ==
    \/ \E c \in Slots : get_user(c)
    \/ \E c \in Slots : get_controllers(c)
    \/ \E c \in Slots : get_controller(c)
    \/ \E c \in Slots : get_zones(c)
    \/ \E c \in Slots : get_zone(c)
    \/ \E c \in Slots : start_zone(c)
    \/ \E c \in Slots : stop_zone(c)
    \/ \E c \in Slots : start_all_zones(c)
    \/ \E c \in Slots : stop_all_zones(c)
    \/ \E c \in Slots : suspend_zone(c)
    \/ \E c \in Slots : resume_zone(c)
    \/ \E c \in Slots : suspend_all_zones(c)
    \/ \E c \in Slots : resume_all_zones(c)
    \/ \E c \in Slots : delete_zone_suspension(c)
    \/ \E c \in Slots : token_ok(c)
    \/ \E c \in Slots : token_fail(c)
    \/ \E c \in Slots : aenter_ok(c)
    \/ \E c \in Slots : aenter_fail(c)
    \/ \E c \in Slots : execute_ok(c)
    \/ \E c \in Slots : execute_fail(c)
    \/ \E c \in Slots : aexit(c)
    \/ \E c \in Slots : Return(c)
    \/ token_refresh

\* A caller that awaits each call before it makes the next.
Spec == Init /\ [][Next]_vars

\* A caller that runs two calls at once.
SpecConcurrent == InitConcurrent /\ [][Next]_vars

(***************************************************************************)
(* Properties.                                                             *)
(***************************************************************************)
Done(c) == calls[c].pc = "done"
Sent(c) == calls[c].pc \in {"execute", "exit", "done"} /\ calls[c].sent > 0
\* The value the server gave the mutation's field.
Response(c) == calls[c].result[calls[c].sel.name]
AnsweredMutation(c) == Done(c) /\ calls[c].kind = "mutation" /\ calls[c].answered

\* C1: a mutation whose response is a status object returns normally when the
\* status is exactly "OK" or "WARNING" and raises MutationError(summary) for
\* every other status.
C1_StatusObjectDecidesOutcome ==
    \A c \in Slots :
        (AnsweredMutation(c) /\ Response(c).shape = "dict") =>
            IF Response(c).status = "OK" \/ Response(c).status = "WARNING"
            THEN calls[c].outcome.status = "returned"
            ELSE /\ calls[c].outcome.status = "raised"
                 /\ calls[c].outcome.error.type = "MutationError"
                 /\ calls[c].outcome.error.args = <<Response(c).summary>>

C1_Witness ==
    \E c \in Slots :
        /\ AnsweredMutation(c)
        /\ calls[c].method = "suspend_all_zones"
        /\ Response(c) = StatusObject("ok", "zone is busy")
        /\ calls[c].outcome.error.args = <<"zone is busy">>

\* C2: a mutation whose response is a bare value raises MutationError with no
\* message when the value is falsy and returns normally when it is truthy.
C2_BareValueDecidesOutcome ==
    \A c \in Slots :
        (AnsweredMutation(c) /\ Response(c).shape = "bare") =>
            IF Response(c).truthy
            THEN calls[c].outcome = ReturnedNone
            ELSE /\ calls[c].outcome.status = "raised"
                 /\ calls[c].outcome.error.type = "MutationError"
                 /\ calls[c].outcome.error.args = <<>>

C2_Witness ==
    \E c \in Slots :
        /\ AnsweredMutation(c)
        /\ calls[c].method = "delete_zone_suspension"
        /\ Response(c) = Bare(FALSE)
        /\ calls[c].outcome.status = "raised"

\* The arguments of a start request other than the duration.
StartArgsWithoutDuration(call) ==
    IF call.method = "start_zone"
    THEN "zoneId" :> call.input.zone.id
           @@ "markRunAsScheduled" :> call.input.mark_run_as_scheduled
           @@ "stackRuns" :> call.input.stack_runs
    ELSE "controllerId" :> call.input.controller.id
           @@ "markRunAsScheduled" :> call.input.mark_run_as_scheduled

\* C3: the request of start_zone and start_all_zones holds no customRunDuration
\* when custom_run_duration is 0, holds exactly that value when it is
\* positive, and its other arguments are the same in both cases.
C3_DurationOnlyWhenPositive ==
    \A c \in Slots :
        (Sent(c) /\ calls[c].method \in {"start_zone", "start_all_zones"}) =>
            LET d == calls[c].input.custom_run_duration
                args == calls[c].sel.args
                rest == [k \in DOMAIN args \ {"customRunDuration"} |-> args[k]]
            IN  /\ d = 0 => "customRunDuration" \notin DOMAIN args
                /\ d > 0 => /\ "customRunDuration" \in DOMAIN args
                            /\ args["customRunDuration"] = d
                /\ rest = StartArgsWithoutDuration(calls[c])

C3_Witness ==
    \E c \in Slots :
        /\ Sent(c)
        /\ calls[c].method = "start_all_zones"
        /\ calls[c].input.custom_run_duration = 0
        /\ DOMAIN calls[c].sel.args = {"controllerId", "markRunAsScheduled"}

InSession(c) == calls[c].pc \in {"execute", "exit"}

\* C4: every call asks the auth collaborator for a token once, then opens a
\* session of its own, and the session is closed when the call completes,
\* however it completes; no session outlives its call and none serves two.
C4_SessionScopedToCall ==
    /\ \A c \in Slots :
        /\ calls[c].tokenCalls = IF calls[c].pc \in {"idle", "token"} THEN 0 ELSE 1
        /\ InSession(c) =>
              /\ calls[c].sid \in DOMAIN sessions
              /\ sessions[calls[c].sid].owner = calls[c].no
              /\ sessions[calls[c].sid].open
        /\ (Done(c) /\ calls[c].sid # 0) => ~sessions[calls[c].sid].open
        /\ (Done(c) /\ calls[c].sent > 0) => calls[c].sid # 0
    /\ \A s \in DOMAIN sessions :
        /\ sessions[s].users \subseteq {sessions[s].owner}
        /\ \A t \in DOMAIN sessions : sessions[t].owner = sessions[s].owner => t = s
        /\ sessions[s].open => \E c \in Slots : InSession(c) /\ calls[c].sid = s

C4_Witness ==
    \E c \in Slots :
        /\ Done(c)
        /\ calls[c].no = MaxCalls
        /\ calls[c].outcome.error.type = "MutationError"
        /\ Len(sessions) = MaxCalls
        /\ \A s \in DOMAIN sessions : ~sessions[s].open /\ sessions[s].users = {s}

\* C5: no call retries.  A call sends at most one request; the error of the
\* auth collaborator, the transport or the deserializer is the error the
\* caller gets; after a failed token acquisition no session is opened and no
\* request sent, and no failure is followed by a second request.
C5_NoRetryErrorsPropagate ==
    \A c \in Slots :
        /\ calls[c].sent <= 1
        /\ calls[c].fault.by \in {"auth", "transport", "deserializer"} =>
              /\ calls[c].pc \in {"exit", "done"}
              /\ calls[c].pc = "exit" => calls[c].pending = calls[c].fault
              /\ Done(c) => calls[c].outcome = Raised(calls[c].fault)
        /\ calls[c].fault = AuthError =>
              /\ Done(c) /\ calls[c].sid = 0 /\ calls[c].sent = 0
              /\ \A s \in DOMAIN sessions : sessions[s].owner # calls[c].no
        /\ calls[c].fault = ConnectError =>
              /\ Done(c) /\ calls[c].sent = 0
              /\ \A s \in DOMAIN sessions : sessions[s].owner # calls[c].no
        /\ calls[c].fault = RequestError => calls[c].sent = 1 /\ ~calls[c].answered
        /\ calls[c].fault = DeserializationError => calls[c].sent = 1 /\ Done(c)

C5_Witness ==
    \E c \in Slots :
        /\ Done(c)
        /\ calls[c].outcome = Raised(RequestError)
        /\ calls[c].sent = 1
        /\ ~sessions[calls[c].sid].open

\* The exception a call holds: the one it raised to its caller, or the one
\* travelling out of its `async with`.
Exception(c) == IF Done(c) THEN calls[c].outcome.error ELSE calls[c].pending

\* C6: the client raises no error but MutationError, and raises it only from
\* a mutation, after the server answered that call's request with a status
\* other than OK or WARNING or with a falsy bare value; a query never raises
\* it and nothing raises it before the request was executed.
C6_MutationErrorOnlyAfterAnswer ==
    \A c \in Slots :
        /\ Exception(c).by = "client" => Exception(c).type = "MutationError"
        /\ Exception(c).type = "MutationError" =>
              /\ calls[c].kind = "mutation"
              /\ calls[c].method \notin
                    {"get_user", "get_controllers", "get_controller", "get_zones",
                     "get_zone"}
              /\ calls[c].sent = 1
              /\ calls[c].answered
              /\ IF Response(c).shape = "dict"
                 THEN Response(c).status \notin {"OK", "WARNING"}
                 ELSE ~Response(c).truthy
        /\ calls[c].pc \in {"token", "connect", "execute"} => Exception(c) = NoError

C6_Witness ==
    \E c \in Slots :
        /\ calls[c].pc = "exit"
        /\ calls[c].method = "resume_zone"
        /\ calls[c].pending.type = "MutationError"
        /\ calls[c].answered

\* The key path and the record type the claim gives each query.
QueryPath(method) ==
    CASE method = "get_user" -> <<"me">>
      [] method = "get_controllers" -> <<"me", "controllers">>
      [] method = "get_controller" -> <<"controller">>
      [] method = "get_zones" -> <<"controller", "zones">>
      [] method = "get_zone" -> <<"zone">>
QueryType(method) ==
    CASE method = "get_user" -> TypeOf("User")
      [] method = "get_controllers" -> ListOf("Controller")
      [] method = "get_controller" -> TypeOf("Controller")
      [] method = "get_zones" -> ListOf("Zone")
      [] method = "get_zone" -> TypeOf("Zone")
PayloadAt(result, path) ==
    IF Len(path) = 1 THEN result[path[1]] ELSE result[path[1]][path[2]]
QueryArgsSent(call) ==
    CASE call.method = "get_controller" ->
            call.sel.args = ("controllerId" :> call.input.controller_id)
      [] call.method = "get_zones" ->
            call.sel.args = ("controllerId" :> call.input.controller.id)
      [] call.method = "get_zone" -> call.sel.args = ("zoneId" :> call.input.zone_id)
      [] OTHER -> DOMAIN call.sel.args = {}

\* C7: a query answered with a well-formed response returns the
\* deserialization, into its record type, of the payload at its key path, and
\* get_controller, get_zones and get_zone send the given id as the argument.
C7_QueryReturnsDeserializedPayload ==
    \A c \in Slots :
        (calls[c].kind = "query" /\ Sent(c)) =>
            /\ calls[c].sel.name = QueryPath(calls[c].method)[1]
            /\ QueryArgsSent(calls[c])
            /\ (Done(c) /\ calls[c].answered) =>
                  LET t == QueryType(calls[c].method)
                      j == PayloadAt(calls[c].result, QueryPath(calls[c].method))
                  IN  IF Fits(t, j)
                      THEN calls[c].outcome = Returned(deserialize(t, j))
                      ELSE calls[c].outcome.status = "raised"

C7_Witness ==
    \E c \in Slots :
        /\ Done(c)
        /\ calls[c].method = "get_zones"
        /\ calls[c].input.controller.id = 42
        /\ calls[c].outcome.status = "returned"
        /\ calls[c].outcome.value = << <<Record("Zone", 1, "a"), Record("Zone", 42, "b")>> >>

\* The server-defined mutation the claim names for each method, the argument
\* that identifies the entity, and the entity passed in.
MutationName(method) ==
    CASE method = "start_zone" -> "startZone"
      [] method = "stop_zone" -> "stopZone"
      [] method = "start_all_zones" -> "startAllZones"
      [] method = "stop_all_zones" -> "stopAllZones"
      [] method = "suspend_zone" -> "suspendZone"
      [] method = "resume_zone" -> "resumeZone"
      [] method = "suspend_all_zones" -> "suspendAllZones"
      [] method = "resume_all_zones" -> "resumeAllZones"
      [] method = "delete_zone_suspension" -> "deleteZoneSuspension"
IdArgument(method) ==
    CASE method \in {"start_zone", "stop_zone", "suspend_zone", "resume_zone"} -> "zoneId"
      [] method = "delete_zone_suspension" -> "id"
      [] OTHER -> "controllerId"
Entity(call) ==
    CASE IdArgument(call.method) = "zoneId" -> call.input.zone
      [] IdArgument(call.method) = "id" -> call.input.suspension
      [] OTHER -> call.input.controller

\* C8: every mutation method issues the mutation named for it with the id of
\* the entity passed in, and returns None when it returns; stop_zone of zone
\* 42 sends zoneId = 42, returns None on "OK" and raises
\* MutationError("some summary") on status "ERROR" with that summary.
C8_MutationNamedWithEntityId ==
    \A c \in Slots :
        (calls[c].kind = "mutation" /\ Sent(c)) =>
            /\ calls[c].sel.root = "Mutation"
            /\ calls[c].sel.name = MutationName(calls[c].method)
            /\ IdArgument(calls[c].method) \in DOMAIN calls[c].sel.args
            /\ calls[c].sel.args[IdArgument(calls[c].method)] = Entity(calls[c]).id
            /\ (Done(c) /\ calls[c].outcome.status = "returned") =>
                  calls[c].outcome.value = <<>>
            /\ (Done(c) /\ calls[c].method = "stop_zone" /\ calls[c].answered
                  /\ calls[c].input.zone.id = 42) =>
                  /\ calls[c].sel.args = ("zoneId" :> 42)
                  /\ Response(c) = StatusObject("OK", "some summary") =>
                        calls[c].outcome = ReturnedNone
                  /\ Response(c) = StatusObject("ERROR", "some summary") =>
                        calls[c].outcome =
                            Raised(Error("MutationError", <<"some summary">>, "client"))

C8_Witness ==
    \E c \in Slots :
        /\ Done(c)
        /\ calls[c].method = "stop_zone"
        /\ calls[c].input.zone.id = 42
        /\ calls[c].answered
        /\ Response(c) = StatusObject("ERROR", "some summary")
        /\ calls[c].outcome.error.args = <<"some summary">>

\* The outcome a call has when it runs alone and its collaborators answer it
\* as they answered it here.
SoloOutcome(call) ==
    IF call.fault.by \in {"auth", "transport"} THEN Raised(call.fault)
    ELSE IF call.kind = "mutation" /\ mutation_check(call.sel, call.result) # NoError
         THEN Raised(mutation_check(call.sel, call.result))
         ELSE method_return(call.method, call.result)

\* C9: overlapping calls need no coordination.  The client's field is never
\* reassigned, every call runs on its own session carrying the token it
\* obtained itself, and the outcome of each call is the one it has alone.
C9_OverlappingCallsIndependent ==
    /\ auth = "auth"
    /\ \A c \in Slots :
        /\ InSession(c) =>
              /\ sessions[calls[c].sid].owner = calls[c].no
              /\ sessions[calls[c].sid].token = calls[c].token
              /\ sessions[calls[c].sid].users = {calls[c].no}
              /\ sessions[calls[c].sid].open
        /\ \A d \in Slots \ {c} :
              (calls[c].sid # 0 /\ calls[d].sid # 0) => calls[c].sid # calls[d].sid
        /\ Done(c) => calls[c].outcome = SoloOutcome(calls[c])

\* Call 2 connected before call 1 did, and finished while call 1 was still
\* waiting for its answer; each used the token current when it asked.
C9_Witness ==
    /\ concurrent
    /\ calls[1].pc = "execute"
    /\ Done(2)
    /\ calls[2].sid < calls[1].sid
    /\ calls[1].token # calls[2].token
    /\ calls[2].outcome.status = "raised"

\* The UTC offset a wire date-time carries.
WireOffset(wire) == wire.text[3]

====
